---- MODULE Spec2Model ----
(***************************************************************************)
(* DoctorSathi agent (middleware-api/python_agent): the action extractor   *)
(* of agent_graph.py, the two-node pipeline behind invoke_agent and the    *)
(* command line entry point run_agent.py.                                  *)
(*                                                                         *)
(* A text is a sequence of tokens.  A token is one of the two literal      *)
(* markers, a run of whitespace, a run of prose, or the text of one JSON   *)
(* value.  A Python dict is a function from its keys to its values, an     *)
(* Optional argument a sequence of length 0 (None) or 1.                   *)
(***************************************************************************)
EXTENDS Integers, Sequences, FiniteSets, TLC

\* ------------------------------------------------------------------ bounds
\* Segments a reply text is built from (SpecExtract).
MaxSegs == 3
\* The clock advances by at most this many milliseconds between two reads.
MaxTick == 1

\* ------------------------------------------------------------------ tokens
START == "**ACTION_START**"
END == "**ACTION_END**"
WS == " "
TXT == "Sure."
\* Texts of JSON values: two objects, an array.
OBJ_A == "{type:CREATE_PRESCRIPTION,data:{..Asha..},description:rx}"
OBJ_B == "{type:ORDER_LAB_TEST,data:{..CBC..},description:lab,priority:high,status:done,id:mine}"
ARR == "[1,2]"

Markers == {START, END}
JsonTokens == {OBJ_A, OBJ_B, ARR}
ObjectTokens == {OBJ_A, OBJ_B}
Tokens == Markers \cup {WS, TXT} \cup JsonTokens

\* ------------------------------------------------------------ Python dicts
DictGet(d, k, dflt) == IF k \in DOMAIN d THEN d[k] ELSE dflt

DictSet(d, k, v) == [x \in (DOMAIN d) \cup {k} |-> IF x = k THEN v ELSE d[x]]

DictUpdate(d, e) ==
    [x \in (DOMAIN d) \cup (DOMAIN e) |-> IF x \in DOMAIN e THEN e[x] ELSE d[x]]

\* -------------------------------------------------------------- str.strip
RECURSIVE LStrip(_)
LStrip(s) == IF s # <<>> /\ Head(s) = WS THEN LStrip(Tail(s)) ELSE s

RECURSIVE RStrip(_)
RStrip(s) ==
    IF s # <<>> /\ s[Len(s)] = WS THEN RStrip(SubSeq(s, 1, Len(s) - 1)) ELSE s

Strip(s) == RStrip(LStrip(s))

\* ------------------------------------------------------------- the regex
\* Index of the first tok at or after from, 0 when there is none.
FirstIndex(text, tok, from) ==
    LET S == {i \in from..Len(text) : text[i] = tok}
    IN  IF S = {} THEN 0 ELSE CHOOSE i \in S : \A j \in S : i <= j

\* \*\*ACTION_START\*\*(.*?)\*\*ACTION_END\*\* with re.DOTALL: the leftmost,
\* non-overlapping, non-greedy matches as <<start index, end index>>.
RECURSIVE PatternMatches(_, _)
PatternMatches(text, from) ==
    LET s == FirstIndex(text, START, from)
        e == IF s = 0 THEN 0 ELSE FirstIndex(text, END, s + 1)
    IN  IF s = 0 \/ e = 0 THEN <<>>
        ELSE <<<<s, e>>>> \o PatternMatches(text, e + 1)

\* re.findall(pattern, text, re.DOTALL): group 1 of every match.
ReFindAll(text) ==
    LET M == PatternMatches(text, 1)
    IN  [i \in 1..Len(M) |-> SubSeq(text, M[i][1] + 1, M[i][2] - 1)]

\* re.sub(pattern, '', text, flags=re.DOTALL): the text outside the matches.
ReSubEmpty(text) ==
    LET M == PatternMatches(text, 1)
        Inside(i) == \E k \in 1..Len(M) : M[k][1] <= i /\ i <= M[k][2]
        F[i \in 0..Len(text)] ==
            IF i = 0 THEN <<>>
            ELSE IF Inside(i) THEN F[i - 1] ELSE Append(F[i - 1], text[i])
    IN  F[Len(text)]

\* -------------------------------------------------------------- json.loads
\* json.loads skips surrounding whitespace and accepts exactly one value.
JsonLoadsOk(s) == Len(Strip(s)) = 1 /\ Strip(s)[1] \in JsonTokens

JsonIsObject(s) == Strip(s)[1] \in ObjectTokens

JsonObject(tok) ==
    IF tok = OBJ_A
    THEN [type |-> "CREATE_PRESCRIPTION", data |-> "{..Asha..}", description |-> "rx"]
    ELSE [type |-> "ORDER_LAB_TEST", data |-> "{..CBC..}", description |-> "lab",
          priority |-> "high", status |-> "done", id |-> "mine"]

JsonLoads(s) == JsonObject(Strip(s)[1])

\* ------------------------------------------------- parse_actions_from_response
\* f"action-{int(time.time() * 1000)}"
ActionId(ms) == "action-" \o ToString(ms)

StampActionNoStatus(obj, ms) ==
    LET a1 == DictSet(obj, "id", ActionId(ms))
    IN  DictSet(a1, "priority", DictGet(a1, "priority", "medium"))

StampActionSetDefault(obj, ms) ==
    LET a1 == DictSet(obj, "id", ActionId(ms))
        a2 == DictSet(a1, "status", DictGet(a1, "status", "pending"))
    IN  DictSet(a2, "priority", DictGet(a2, "priority", "medium"))

\* Lines 292-294: the three item assignments on the parsed object.
StampAction(obj, ms) ==
    LET a1 == DictSet(obj, "id", ActionId(ms))
        a2 == DictSet(a1, "status", "pending")
    IN  DictSet(a2, "priority", DictGet(a2, "priority", "medium"))

\* The for loop over the matches.  reads[r] is the r-th clock reading of the
\* call.  An interior json.loads rejects is skipped (JSONDecodeError); a JSON
\* value that is not an object raises TypeError at the first item assignment,
\* which the loop does not catch.
RECURSIVE ParseLoop(_, _, _, _, _)
ParseLoop(matches, i, reads, r, acc) ==
    IF i > Len(matches) THEN [raised |-> FALSE, actions |-> acc]
    ELSE IF ~JsonLoadsOk(Strip(matches[i]))
         THEN ParseLoop(matches, i + 1, reads, r, acc)
    ELSE IF ~JsonIsObject(Strip(matches[i]))
         THEN [raised |-> TRUE, actions |-> <<>>]
    ELSE ParseLoop(matches, i + 1, reads, r + 1,
                   Append(acc, StampAction(JsonLoads(Strip(matches[i])), reads[r])))

parse_actions_from_response(text, reads) ==
    ParseLoop(ReFindAll(text), 1, reads, 1, <<>>)

\* Number of clock readings a call takes: one per match json.loads accepts.
ClockReadsNeeded(text) ==
    LET m == ReFindAll(text)
    IN  Cardinality({i \in 1..Len(m) : JsonLoadsOk(Strip(m[i]))})

\* -------------------------------------------------------- remove_action_blocks
\* Lines 308-310
remove_action_blocks(text) == Strip(ReSubEmpty(text))

\* ------------------------------------------------------------ reply texts
\* A reply text is a concatenation of at most MaxSegs segments: a single
\* token (a stray marker included) or a delimited block.
Interiors ==
    {<<>>, <<TXT>>, <<OBJ_A>>, <<OBJ_B>>, <<ARR>>, <<WS, OBJ_A, WS>>, <<START, OBJ_A>>}

Segments == {<<t>> : t \in Tokens} \cup {<<START>> \o x \o <<END>> : x \in Interiors}

RECURSIVE Flatten(_)
Flatten(ss) == IF ss = <<>> THEN <<>> ELSE Head(ss) \o Flatten(Tail(ss))

Texts == {Flatten(ss) : ss \in UNION {[1..n -> Segments] : n \in 0..MaxSegs}}

\* Clock readings of one call: the first read is 0 or later, each read is
\* the one before or up to MaxTick later.
RECURSIVE ClockReadings(_)
ClockReadings(n) ==
    IF n = 0 THEN {<<>>}
    ELSE IF n = 1 THEN {<<t>> : t \in 0..MaxTick}
    ELSE {Append(p, p[n - 1] + d) : p \in ClockReadings(n - 1), d \in 0..MaxTick}

\* ------------------------------------------------------------ JSON values
\* The values a context field can hold, each named by its JSON text.  Any
\* other string is a Python str (a display name).
J_NULL == "null"
J_NUM == "7"
J_STR == "'x'"
J_LIST0 == "[]"
J_LIST_DICT == "[{}]"
J_LIST_NUM == "[7]"
J_LIST_NUMDESC == "[{description:5}]"
J_DICT0 == "{}"
J_DICT_STATS == "{totalPatients:3}"

CtxValues ==
    {J_NULL, J_NUM, J_STR, J_LIST0, J_LIST_DICT, J_LIST_NUM, J_LIST_NUMDESC,
     J_DICT0, J_DICT_STATS}

IsDictValue(v) == v \in {J_DICT0, J_DICT_STATS}
IsListValue(v) == v \in {J_LIST0, J_LIST_DICT, J_LIST_NUM, J_LIST_NUMDESC}
\* bool(v)
Truthy(v) == v \notin {J_NULL, J_LIST0, J_DICT0, ""}
\* len(v) raises TypeError for None and for a number.
HasLen(v) == v \notin {J_NULL, J_NUM}
\* every x in v is a dict, so x.get(...) works
ItemsAreDicts(v) == v \in {J_LIST0, J_LIST_DICT, J_LIST_NUMDESC}

\* A raw context argument: a mapping (d) or some other value (v).
EmptyDict == <<>>
RawDict(d) == [kind |-> "dict", d |-> d, v |-> J_NULL]
RawOther(v) == [kind |-> "other", d |-> EmptyDict, v |-> v]
RawTruthy(raw) == IF raw.kind = "dict" THEN raw.d # EmptyDict ELSE Truthy(raw.v)

\* A JSON text: what json.loads makes of it, and what json.dumps wrote.
JsonTextOf(value) == [valid |-> TRUE, value |-> value]
InvalidJsonText == [valid |-> FALSE, value |-> RawOther(J_NULL)]

\* ------------------------------------------------------ fetch_patient_context
KnownKeys ==
    {"name", "appointments", "prescriptions", "records", "labTests", "patients", "stats"}

ListKeys == {"appointments", "prescriptions", "records", "labTests", "patients"}

FieldDefault(k) ==
    IF k = "name" THEN "Doctor" ELSE IF k = "stats" THEN J_DICT0 ELSE J_LIST0

DoctorContextKeepAll(existing) ==
    [k \in KnownKeys \cup DOMAIN existing |-> DictGet(existing, k, FieldDefault(k))]

\* Lines 50-58
DoctorContext(existing) ==
    [k \in KnownKeys |-> DictGet(existing, k, FieldDefault(k))]

\* ---------------------------------------------------------- generate_response
NoError == ""
E_ATTR == "AttributeError: object has no attribute 'get'"
E_TYPE == "TypeError: object is not iterable"
E_SUBSCR == "TypeError: 'int' object is not subscriptable"
E_ITEM == "TypeError: object does not support item assignment"
E_UPDATE == "TypeError: cannot convert dictionary update sequence"

\* "if xs: ... for x in xs[:n]: x.get(...)": nothing happens for a falsy
\* value; a truthy one must be a list of dicts.
ListDigestError(v) ==
    IF ~Truthy(v) THEN NoError
    ELSE IF v = J_NUM THEN E_TYPE
    ELSE IF ~(IsListValue(v) /\ ItemsAreDicts(v)) THEN E_ATTR
    ELSE NoError

\* Lines 116-125: description[:50] on top of the above.
RecordsDigestError(v) ==
    IF ListDigestError(v) # NoError THEN ListDigestError(v)
    ELSE IF v = J_LIST_NUMDESC THEN E_SUBSCR
    ELSE NoError

\* Lines 159-164: stats.get(...)
StatsError(v) == IF IsDictValue(v) THEN NoError ELSE E_ATTR

FirstError(es) ==
    LET S == {i \in 1..Len(es) : es[i] # NoError}
    IN  IF S = {} THEN NoError ELSE es[CHOOSE i \in S : \A j \in S : i <= j]

\* Lines 71-164, in source order: the first statement that raises.
AssembleError(pc_) ==
    FirstError(<<ListDigestError(DictGet(pc_, "appointments", J_LIST0)),
                 ListDigestError(DictGet(pc_, "prescriptions", J_LIST0)),
                 RecordsDigestError(DictGet(pc_, "records", J_LIST0)),
                 ListDigestError(DictGet(pc_, "labTests", J_LIST0)),
                 ListDigestError(DictGet(pc_, "patients", J_LIST0)),
                 StatsError(DictGet(pc_, "stats", J_DICT0))>>)

APOLOGY_HEAD == "I apologize, but I'm experiencing technical difficulties right now. Error: "
APOLOGY_TAIL == "\n\nPlease try again in a moment or contact support if this persists."

ErrorResponseFixed(e) == <<APOLOGY_HEAD, APOLOGY_TAIL>>

\* Line 267
ErrorResponse(e) == <<APOLOGY_HEAD, e, APOLOGY_TAIL>>

AIMessage(content) == [role |-> "assistant", content |-> content]
HumanMessage(content) == [role |-> "user", content |-> <<content>>]

\* What the completion call did: it raised err, or it returned text.
LlmErrors == {"429 quota exceeded", "API key not valid"}
LlmFailed(e) == [ok |-> FALSE, err |-> e, text |-> <<>>]
LlmReplied(t) == [ok |-> TRUE, err |-> NoError, text |-> t]

\* The except branch, lines 266-273.
ApologyUpdate(messages, e) ==
    [messages |-> Append(messages, AIMessage(ErrorResponse(e))),
     response |-> ErrorResponse(e),
     actions |-> <<>>]

\* Lines 236-273: the update the node returns for a completion outcome.
GenerateUpdate(messages, c, reads) ==
    IF ~c.ok THEN ApologyUpdate(messages, c.err)
    ELSE LET p == parse_actions_from_response(c.text, reads)
         IN  IF p.raised THEN ApologyUpdate(messages, E_ITEM)
             ELSE [messages |-> Append(messages, AIMessage(remove_action_blocks(c.text))),
                   response |-> remove_action_blocks(c.text),
                   actions |-> p.actions]

\* What node 2 does once the prompt is assembled, in order: the completion
\* call (line 248), the extraction when it returned (lines 252-255), and the
\* edge to END (line 332).
GenerateEvents(c) ==
    <<"ResponseGeneration", "complete">>
        \o (IF c.ok THEN <<"extract">> ELSE <<>>)
        \o <<"Done">>

\* ---------------------------------------------------------------- invoke_agent
ThreadIdAsGiven(thread_id, user_id) ==
    IF thread_id # <<>> THEN thread_id[1] ELSE "thread-" \o user_id

\* Line 365: thread_id or f"thread-{user_id}"
ThreadId(thread_id, user_id) ==
    IF thread_id # <<>> /\ thread_id[1] # "" THEN thread_id[1]
    ELSE "thread-" \o user_id

\* Lines 368-370: dict.update raises for a truthy value that is not a mapping.
MergeError(raw) ==
    IF RawTruthy(raw) /\ raw.kind # "dict" THEN E_UPDATE ELSE NoError

InitialDoctorContext(user_name, raw) ==
    IF RawTruthy(raw) THEN DictUpdate([name |-> user_name], raw.d)
    ELSE [name |-> user_name]

\* Lines 383-389
AgentResult(final_state, user_id, thread) ==
    [response |-> final_state.response,
     actions |-> final_state.actions,
     user_id |-> user_id,
     thread_id |-> thread,
     patient_context |-> final_state.patient_context]

ResultKeys == {"response", "actions", "user_id", "thread_id", "patient_context"}

\* Line 392 and run_agent.py line 72
WrapError(e) == "Error invoking agent: " \o e

\* ------------------------------------------------------------------ main
ArgOrShifted(argv, i, dflt) == IF Len(argv) > i THEN argv[i] ELSE dflt

\* sys.argv[i] if len(sys.argv) > i else dflt (argv holds sys.argv[1:])
ArgOr(argv, i, dflt) == IF Len(argv) >= i THEN argv[i] ELSE dflt

MainContextErrorStrict(text) ==
    IF ~text.valid THEN "JSONDecodeError: Expecting value"
    ELSE IF text.value.kind # "dict" THEN E_ATTR
    ELSE NoError

\* Lines 35-47: json.loads and the debug prints.  JSONDecodeError alone is
\* caught there; .get on a non-mapping and len() of None or a number raise
\* past it.
MainContextError(text) ==
    IF ~text.valid THEN NoError
    ELSE IF text.value.kind # "dict" THEN E_ATTR
    ELSE IF \E k \in ListKeys : ~HasLen(DictGet(text.value.d, k, J_LIST0))
         THEN "TypeError: object has no len()"
    ELSE NoError

MainContext(text) == IF text.valid THEN text.value ELSE RawDict(EmptyDict)

\* ------------------------------------------------------------------ inputs
MaxCtxKeys == 1

CtxKeys == KnownKeys \cup {"age"}

Contexts ==
    UNION {[K -> CtxValues] : K \in {S \in SUBSET CtxKeys : Cardinality(S) <= MaxCtxKeys}}

RawContexts ==
    {RawDict(d) : d \in Contexts}
        \cup {RawOther(v) : v \in {J_NULL, J_NUM, J_STR, J_LIST0, J_LIST_NUM}}

UserIds == {"doc1", "doc2"}
UserNames == {"Dr. Rao"}
MessageTexts == {"Create prescription for Asha Rai"}
ThreadIds == {"", "t-42"}
ContextArgs == {InvalidJsonText} \cup {JsonTextOf(r) : r \in RawContexts}

ArgVectors ==
    {<<>>}
        \cup {<<u>> : u \in UserIds}
        \cup {<<u, n>> : u \in UserIds, n \in UserNames}
        \cup {<<u, n, m>> : u \in UserIds, n \in UserNames, m \in MessageTexts}
        \cup {<<u, n, m, t>> : u \in UserIds, n \in UserNames, m \in MessageTexts,
                               t \in ThreadIds}
        \cup {<<u, n, m, t, c>> : u \in UserIds, n \in UserNames, m \in MessageTexts,
                                  t \in ThreadIds, c \in ContextArgs}

\* Replies of the completion capability the pipeline is run on.
PipelineReplies ==
    {<<TXT>>,
     <<TXT, WS, START, WS, OBJ_A, WS, END>>,
     <<START, OBJ_A, END, START, OBJ_B, END>>,
     <<START, TXT, END, TXT>>,
     <<START, ARR, END, START, OBJ_A, END>>}

Completions ==
    {LlmFailed(e) : e \in LlmErrors} \cup {LlmReplied(t) : t \in PipelineReplies}

NoCall ==
    [user_id |-> "", user_name |-> "", message |-> "", thread_id |-> <<>>,
     patient_context |-> RawOther(J_NULL)]

NoState ==
    [messages |-> <<>>, user_id |-> "", patient_context |-> EmptyDict,
     response |-> <<>>, actions |-> <<>>]

\* ---------------------------------------------------------------- state
VARIABLES
    pc,        \* position of the process
    caller,    \* "none", "cli" (run_agent.py) or "direct" (a Python caller)
    argv,      \* sys.argv[1:]
    call,      \* the arguments of invoke_agent
    thread,    \* config["configurable"]["thread_id"]
    state,     \* the graph state: the initial state with each node's update merged in
    llm,       \* completion outcomes of this invocation, in order
    result,    \* what invoke_agent returned: <<>> or <<result>>
    error,     \* str(e) of the exception in flight: <<>> or <<message>>
    stdout,    \* documents printed to standard output
    exit_code, \* -1 while running
    trace,     \* what the graph has run: stages entered, completion calls, extractions
    xpc,       \* extractor harness: "off", "input", "parsed", "done"
    xtext,     \* the reply text handed to the two functions
    xparsed,   \* what parse_actions_from_response did: [raised, actions]
    xdisplay   \* what remove_action_blocks returned

pvars ==
    <<pc, caller, argv, call, thread, state, llm, result, error, stdout, exit_code, trace>>
xvars == <<xpc, xtext, xparsed, xdisplay>>
vars == <<pvars, xvars>>

PipelineIdle ==
    /\ pc = "idle"
    /\ caller = "none"
    /\ argv = <<>>
    /\ call = NoCall
    /\ thread = ""
    /\ state = NoState
    /\ llm = <<>>
    /\ result = <<>>
    /\ error = <<>>
    /\ stdout = <<>>
    /\ exit_code = -1
    /\ trace = <<>>

ExtractorOff ==
    /\ xpc = "off"
    /\ xtext = <<>>
    /\ xparsed = [raised |-> FALSE, actions |-> <<>>]
    /\ xdisplay = <<>>

\* ------------------------------------------------------- pipeline actions
\* run_agent.py lines 25-47: the arguments, the context JSON, the debug prints.
MainStart ==
    /\ pc = "idle"
    /\ \E a \in ArgVectors :
          LET text == ArgOr(a, 5, JsonTextOf(RawDict(EmptyDict)))
              err == MainContextError(text)
          IN  /\ argv' = a
              /\ caller' = "cli"
              /\ IF err # NoError
                 THEN /\ error' = <<err>>
                      /\ pc' = "main_except"
                      /\ call' = call
                 ELSE /\ error' = error
                      /\ pc' = "invoke"
                      /\ call' = [user_id |-> ArgOr(a, 1, "unknown"),
                                  user_name |-> ArgOr(a, 2, "Doctor"),
                                  message |-> ArgOr(a, 3, "Hello"),
                                  thread_id |-> IF Len(a) >= 4 THEN <<a[4]>> ELSE <<>>,
                                  patient_context |-> MainContext(text)]
    /\ UNCHANGED <<thread, state, llm, result, stdout, exit_code, trace, xvars>>

\* invoke_agent called from Python with arguments of the caller's choice.
DirectCall ==
    /\ pc = "idle"
    /\ \E u \in UserIds, n \in UserNames, m \in MessageTexts,
          t \in {<<>>} \cup {<<x>> : x \in ThreadIds}, r \in RawContexts :
          call' = [user_id |-> u, user_name |-> n, message |-> m, thread_id |-> t,
                   patient_context |-> r]
    /\ caller' = "direct"
    /\ pc' = "invoke"
    /\ UNCHANGED <<argv, thread, state, llm, result, error, stdout, exit_code, trace, xvars>>

\* agent_graph.py lines 363-378: config, merged context, initial state.
InvokeAgentEnter ==
    /\ pc = "invoke"
    /\ thread' = ThreadId(call.thread_id, call.user_id)
    /\ IF MergeError(call.patient_context) # NoError
       THEN /\ error' = <<MergeError(call.patient_context)>>
            /\ pc' = "invoke_except"
            /\ state' = state
       ELSE /\ error' = error
            /\ pc' = "fetch_patient_context"
            /\ state' = [messages |-> <<HumanMessage(call.message)>>,
                         user_id |-> call.user_id,
                         patient_context |->
                             InitialDoctorContext(call.user_name, call.patient_context),
                         response |-> <<>>,
                         actions |-> <<>>]
    /\ UNCHANGED <<caller, argv, call, llm, result, stdout, exit_code, trace, xvars>>

\* Node 1, lines 38-60.
FetchPatientContext ==
    /\ pc = "fetch_patient_context"
    /\ state' = [state EXCEPT !.patient_context = DoctorContext(state.patient_context)]
    /\ pc' = "generate_response"
    /\ trace' = Append(trace, "ContextFetch")
    /\ UNCHANGED <<caller, argv, call, thread, llm, result, error, stdout, exit_code, xvars>>

\* Node 2, lines 66-273: the prompt, the completion call, the extraction.
GenerateResponse ==
    /\ pc = "generate_response"
    /\ IF AssembleError(state.patient_context) # NoError
       THEN /\ error' = <<AssembleError(state.patient_context)>>
            /\ pc' = "invoke_except"
            /\ trace' = Append(trace, "ResponseGeneration")
            /\ UNCHANGED <<state, llm>>
       ELSE /\ \E c \in Completions :
                \E reads \in ClockReadings(ClockReadsNeeded(c.text)) :
                   LET u == GenerateUpdate(state.messages, c, reads)
                   IN  /\ llm' = Append(llm, c)
                       /\ trace' = trace \o GenerateEvents(c)
                       /\ state' = [state EXCEPT !.messages = u.messages,
                                                 !.response = u.response,
                                                 !.actions = u.actions]
            /\ pc' = "END"
            /\ error' = error
    /\ UNCHANGED <<caller, argv, call, thread, result, stdout, exit_code, xvars>>

\* Lines 383-389.
InvokeAgentReturn ==
    /\ pc = "END"
    /\ result' = <<AgentResult(state, call.user_id, thread)>>
    /\ pc' = IF caller = "cli" THEN "main_print" ELSE "returned"
    /\ UNCHANGED <<caller, argv, call, thread, state, llm, error, stdout, exit_code, trace, xvars>>

\* Lines 391-392.
InvokeAgentExcept ==
    /\ pc = "invoke_except"
    /\ error' = <<WrapError(error[1])>>
    /\ pc' = IF caller = "cli" THEN "main_except" ELSE "raised"
    /\ UNCHANGED <<caller, argv, call, thread, state, llm, result, stdout, exit_code, trace, xvars>>

\* run_agent.py lines 59-60.
MainPrint ==
    /\ pc = "main_print"
    /\ stdout' = Append(stdout, JsonTextOf(result[1]))
    /\ exit_code' = 0
    /\ pc' = "exited"
    /\ UNCHANGED <<caller, argv, call, thread, state, llm, result, error, trace, xvars>>

\* run_agent.py lines 62-75.
MainExcept ==
    /\ pc = "main_except"
    /\ stdout' = Append(stdout,
                        JsonTextOf([success |-> FALSE, error |-> WrapError(error[1])]))
    /\ exit_code' = 1
    /\ pc' = "exited"
    /\ UNCHANGED <<caller, argv, call, thread, state, llm, result, error, trace, xvars>>

Init == PipelineIdle /\ ExtractorOff

Next ==
    \/ MainStart
    \/ DirectCall
    \/ InvokeAgentEnter
    \/ FetchPatientContext
    \/ GenerateResponse
    \/ InvokeAgentReturn
    \/ InvokeAgentExcept
    \/ MainPrint
    \/ MainExcept

Spec == Init /\ [][Next]_vars

\* ------------------------------------------------------ extractor harness
\* The two functions of the Action Extractor applied to one reply text.
XInit ==
    /\ PipelineIdle
    /\ xpc = "input"
    /\ xtext \in Texts
    /\ xparsed = [raised |-> FALSE, actions |-> <<>>]
    /\ xdisplay = <<>>

XParse ==
    /\ xpc = "input"
    /\ \E reads \in ClockReadings(ClockReadsNeeded(xtext)) :
          xparsed' = parse_actions_from_response(xtext, reads)
    /\ xpc' = "parsed"
    /\ UNCHANGED <<xtext, xdisplay, pvars>>

XRemove ==
    /\ xpc = "parsed"
    /\ xdisplay' = remove_action_blocks(xtext)
    /\ xpc' = "done"
    /\ UNCHANGED <<xtext, xparsed, pvars>>

XNext == XParse \/ XRemove

SpecExtract == XInit /\ [][XNext]_vars

\* ============================================================ properties
Range(s) == {s[i] : i \in 1..Len(s)}

HasPrefix(str, prefix) ==
    Len(str) >= Len(prefix) /\ SubSeq(str, 1, Len(prefix)) = prefix

\* The blocks of the text under the extractor, and those holding a JSON object.
XBlocks == ReFindAll(xtext)
XSpans == PatternMatches(xtext, 1)
XWellFormed(i) == JsonLoadsOk(XBlocks[i]) /\ JsonIsObject(XBlocks[i])
XInvalidJson(i) == ~JsonLoadsOk(XBlocks[i])

\* The embedded objects of the well-formed blocks, in document order.
XEmbedded ==
    LET F[i \in 0..Len(XBlocks)] ==
            IF i = 0 THEN <<>>
            ELSE IF XWellFormed(i) THEN Append(F[i - 1], JsonLoads(XBlocks[i]))
            ELSE F[i - 1]
    IN  F[Len(XBlocks)]

\* The text outside every delimited block.
XOutside ==
    LET F[i \in 0..Len(xtext)] ==
            IF i = 0 THEN <<>>
            ELSE IF \E k \in 1..Len(XSpans) : XSpans[k][1] <= i /\ i <= XSpans[k][2]
                 THEN F[i - 1]
                 ELSE Append(F[i - 1], xtext[i])
    IN  F[Len(xtext)]

SameProposal(action, embedded) ==
    \A k \in {"type", "data", "description"} :
        /\ k \in DOMAIN action <=> k \in DOMAIN embedded
        /\ k \in DOMAIN embedded => action[k] = embedded[k]

XOneWellFormedBlock == Len(XBlocks) = 1 /\ XWellFormed(1)

XRoundTripActions ==
    /\ ~xparsed.raised
    /\ Len(xparsed.actions) = 1
    /\ SameProposal(xparsed.actions[1], JsonLoads(XBlocks[1]))
    /\ DictGet(xparsed.actions[1], "status", "") = "pending"
    /\ HasPrefix(DictGet(xparsed.actions[1], "id", ""), "action-")
    /\ Len(DictGet(xparsed.actions[1], "id", "")) > Len("action-")

C4_Original ==
    (xpc = "done" /\ \E i \in 1..Len(XBlocks) : XInvalidJson(i)) =>
        /\ Len(xparsed.actions) = Len(XEmbedded)
        /\ \A j \in 1..Len(xparsed.actions) :
              SameProposal(xparsed.actions[j], XEmbedded[j])
        /\ xdisplay = Strip(XOutside)

\* C5 as stated: extraction never raises, and the actions of all the
\* well-formed regions are returned whatever the other regions hold.
C5_Original ==
    xpc \in {"parsed", "done"} =>
        /\ ~xparsed.raised
        /\ Len(xparsed.actions) = Len(XEmbedded)

\* C6 as stated: no two actions returned by one extraction share an id.
C6_Original ==
    xpc \in {"parsed", "done"} =>
        \A i, j \in 1..Len(xparsed.actions) :
            i # j => xparsed.actions[i].id # xparsed.actions[j].id

\* ------------------------------------------------------------- pipeline
LlmFailure == llm # <<>> /\ ~llm[Len(llm)].ok

FixedApology == <<APOLOGY_HEAD, APOLOGY_TAIL>>

\* C2 as stated: after a failed completion call the node has not raised, the
\* response is the fixed apology text, the same for every failure, there
\* are no actions and the history is the input plus one assistant turn
\* carrying that text.
C2_Original ==
    LlmFailure =>
        /\ pc \notin {"invoke_except", "raised", "main_except"}
        /\ state.response = FixedApology
        /\ state.actions = <<>>
        /\ state.messages =
              <<HumanMessage(call.message), AIMessage(FixedApology)>>

\* C2 amended: after a failed completion call the node has not raised, the
\* response is the apology text with the failure's message embedded in it,
\* there are no actions and the history is the input plus one assistant turn
\* carrying that response.
C2_ApologyCarriesError ==
    LlmFailure =>
        /\ pc \notin {"invoke_except", "raised", "main_except"}
        /\ error = <<>>
        /\ state.response = <<APOLOGY_HEAD, llm[Len(llm)].err, APOLOGY_TAIL>>
        /\ state.actions = <<>>
        /\ state.messages =
              <<HumanMessage(call.message),
                [role |-> "assistant", content |-> state.response]>>

C2_Witness ==
    /\ LlmFailure
    /\ pc = "returned"
    /\ result[1].response[2] = "429 quota exceeded"
    /\ result[1].actions = <<>>

\* C3 as stated: with a raw context that is a mapping, whatever its values,
\* invoke_agent does not raise, and the normalized context handed to the
\* prompt assembler has every field the assembler reads.
C3_Original ==
    /\ call.patient_context.kind = "dict" => pc \notin {"invoke_except", "raised"}
    /\ pc = "generate_response" => KnownKeys \subseteq DOMAIN state.patient_context

ThreadSupplied == call.thread_id # <<>>

\* C7 as stated: the result's thread_id is thread-<callerId> when no thread
\* id is supplied and the supplied string, whatever it is, otherwise.
C7_Original ==
    result # <<>> =>
        result[1].thread_id =
            IF ThreadSupplied THEN call.thread_id[1] ELSE "thread-" \o call.user_id

\* C7 amended: the result's thread_id is thread-<callerId> when no thread id
\* is supplied or the supplied one is the empty string, and the supplied
\* string unchanged when it is not empty.
C7_ThreadId ==
    result # <<>> =>
        /\ ~ThreadSupplied => result[1].thread_id = "thread-" \o call.user_id
        /\ call.thread_id = <<"">> => result[1].thread_id = "thread-" \o call.user_id
        /\ (ThreadSupplied /\ call.thread_id[1] # "") =>
              result[1].thread_id = call.thread_id[1]
        /\ pc = "exited" => stdout[1].value.thread_id = result[1].thread_id

C7_Witness ==
    /\ pc = "exited"
    /\ call.thread_id = <<"">>
    /\ stdout[1].value.thread_id = "thread-doc2"

RawKeys == DOMAIN call.patient_context.d

\* C8 as stated: a key of the raw context the normalizer does not read is
\* present, with its value, in the result's patient_context.
C8_Original ==
    result # <<>> =>
        \A k \in RawKeys \ KnownKeys :
            /\ k \in DOMAIN result[1].patient_context
            /\ result[1].patient_context[k] = call.patient_context.d[k]

\* C8 amended: the result's patient_context has exactly the seven keys the
\* normalizer reads, each with the raw context's value when the raw context
\* has the key and the default otherwise (name: the display name); every
\* other key of the raw context is dropped.
C8_EchoedContext ==
    result # <<>> =>
        /\ DOMAIN result[1].patient_context = KnownKeys
        /\ \A k \in KnownKeys :
              result[1].patient_context[k] =
                  IF k \in RawKeys THEN call.patient_context.d[k]
                  ELSE IF k = "name" THEN call.user_name
                  ELSE IF k = "stats" THEN J_DICT0
                  ELSE J_LIST0

C8_Witness ==
    /\ result # <<>>
    /\ "age" \in RawKeys
    /\ "age" \notin DOMAIN result[1].patient_context

Pipelined == pc \in {"invoke", "fetch_patient_context", "generate_response", "END",
                     "invoke_except", "main_print"} \/ llm # <<>>

\* C9 as stated: with fewer than three arguments main never invokes the
\* pipeline and the process ends with a failure outcome.
C9_Original ==
    (caller = "cli" /\ Len(argv) < 3) =>
        /\ ~Pipelined
        /\ exit_code # 0
        /\ pc = "exited" => DOMAIN stdout[1].value = {"success", "error"}

\* C9 amended: with fewer than three arguments main invokes the pipeline with
\* "unknown", "Doctor" and "Hello" in place of the missing callerId,
\* displayName and messageText, no thread id and an empty context, and the
\* process ends with the success response and exit code 0.
C9_Defaults ==
    (caller = "cli" /\ Len(argv) < 3) =>
        /\ call.user_id = IF Len(argv) >= 1 THEN argv[1] ELSE "unknown"
        /\ call.user_name = IF Len(argv) >= 2 THEN argv[2] ELSE "Doctor"
        /\ call.message = "Hello"
        /\ call.thread_id = <<>>
        /\ call.patient_context = RawDict(EmptyDict)
        /\ pc \notin {"invoke_except", "main_except"}
        /\ pc = "exited" =>
              /\ Len(llm) = 1
              /\ exit_code = 0
              /\ DOMAIN stdout[1].value = ResultKeys
              /\ stdout[1].value.user_id = call.user_id
              /\ stdout[1].value.patient_context.name = call.user_name

C9_Witness ==
    /\ caller = "cli"
    /\ argv = <<"doc1">>
    /\ pc = "exited"
    /\ exit_code = 0
    /\ stdout[1].value.patient_context.name = "Doctor"

InvalidContextArg == Len(argv) = 5 /\ ~argv[5].valid

\* C10: a run of the command line writes nothing until it exits and exactly
\* one JSON document when it does; the exit code is 0 exactly when that
\* document has the keys of the success shape and 1 exactly when a failure
\* was caught and the document is {success: false, error}; a run never stops
\* before it exits; a contextJson that is not valid JSON gives an empty
\* context and never the failure path.
C10_OneDocument ==
    caller = "cli" =>
        /\ pc # "exited" => stdout = <<>> /\ exit_code = -1 /\ ENABLED Next
        /\ pc = "exited" => Len(stdout) = 1 /\ stdout[1].valid /\ exit_code \in {0, 1}
        /\ exit_code = 0 <=> (pc = "exited" /\ DOMAIN stdout[1].value = ResultKeys)
        /\ exit_code = 1 <=>
              /\ pc = "exited"
              /\ error # <<>>
              /\ DOMAIN stdout[1].value = {"success", "error"}
              /\ stdout[1].value.success = FALSE
              /\ HasPrefix(stdout[1].value.error, "Error invoking agent: ")
        /\ InvalidContextArg =>
              /\ call.patient_context = RawDict(EmptyDict)
              /\ pc \notin {"invoke_except", "main_except"}
              /\ error = <<>>
              /\ exit_code # 1

C10_Witness ==
    /\ caller = "cli"
    /\ InvalidContextArg
    /\ pc = "exited"
    /\ exit_code = 0
    /\ Len(stdout) = 1

\* C12: every action parse_actions_from_response returns has status
\* "pending" and an action- id, whatever status or id the embedded object
\* carried, and the embedded object's own priority when it has one and
\* "medium" otherwise.
C12_PendingAndPriority ==
    xpc \in {"parsed", "done"} =>
        LET embedded == XEmbedded
        IN  /\ Len(xparsed.actions) <= Len(embedded)
            /\ \A j \in 1..Len(xparsed.actions) :
                  /\ DictGet(xparsed.actions[j], "status", "") = "pending"
                  /\ HasPrefix(DictGet(xparsed.actions[j], "id", ""), "action-")
                  /\ DictGet(xparsed.actions[j], "priority", "") =
                        IF "priority" \in DOMAIN embedded[j]
                        THEN embedded[j]["priority"]
                        ELSE "medium"

C12_Witness ==
    /\ xpc = "done"
    /\ xtext = <<START, OBJ_B, END, START, OBJ_A, END>>
    /\ Len(xparsed.actions) = 2
    /\ JsonObject(OBJ_B)["status"] = "done"
    /\ xparsed.actions[1]["status"] = "pending"
    /\ xparsed.actions[1]["priority"] = "high"
    /\ xparsed.actions[2]["priority"] = "medium"

\* ------------------------------------------------------------ the graph
StageOrder == <<"ContextFetch", "ResponseGeneration", "Done">>
IsStage(e) == e \in Range(StageOrder)
StageTrace == SelectSeq(trace, IsStage)
Occurrences(e) == Cardinality({i \in 1..Len(trace) : trace[i] = e})

\* The stages run so far are an initial part of ContextFetch,
\* ResponseGeneration, Done, each at most once; the completion capability is
\* called at most once and only after ContextFetch; an extraction directly
\* follows a completion call that returned a reply; the graph has no other
\* step, none that executes an action.
C11_StageOrder ==
    /\ \E n \in 0..Len(StageOrder) : StageTrace = SubSeq(StageOrder, 1, n)
    /\ Occurrences("complete") <= 1
    /\ Occurrences("complete") = Len(llm)
    /\ \A i \in 1..Len(trace) :
          /\ trace[i] = "complete" =>
                \E j \in 1..(i - 1) : trace[j] = "ContextFetch"
          /\ trace[i] = "extract" =>
                i > 1 /\ trace[i - 1] = "complete" /\ llm[Len(llm)].ok
    /\ Range(trace) \subseteq Range(StageOrder) \cup {"complete", "extract"}
    /\ trace # <<>> => KnownKeys \subseteq DOMAIN state.patient_context

GraphRunning == pc \in {"fetch_patient_context", "generate_response"}

\* C11 as stated: the stages run in order with no branching and no retry,
\* and every invocation of the graph that has ended went through
\* ContextFetch, ResponseGeneration and Done, each exactly once.
C11_Original ==
    /\ C11_StageOrder
    /\ (trace # <<>> /\ ~GraphRunning) => StageTrace = StageOrder

\* An invocation that ended at Done after one completion call and one
\* extraction.
C11_DoneReached ==
    /\ pc = "returned"
    /\ trace = <<"ContextFetch", "ResponseGeneration", "complete", "extract", "Done">>

====
